---- MODULE Spec2Model ----
(***************************************************************************)
(* A model of `mk` (src/src/bin/mk.rs): one invocation creates a single    *)
(* filesystem entry below a root directory.                                *)
(*                                                                         *)
(* A path is a sequence of Normal components below the root; a component   *)
(* is a sequence of tokens, where "." is the dot character and every other *)
(* token is a dot-free run of characters ("sh", "txt", ...).  The tokens   *)
(* form a prefix-free code, so distinct token sequences are distinct       *)
(* names.  The filesystem maps each existing path to its entry; the root   *)
(* <<>> always exists and is a directory.                                  *)
(***************************************************************************)
EXTENDS Integers, Sequences, FiniteSets, TLC

VARIABLES
    fs,        \* the filesystem below the root: existing path -> entry
    pc,        \* position of the invocation inside run
    options,   \* the parsed Options of the invocation
    stdin,     \* bytes of standard input not yet read
    payload,   \* history: the bytes standard input carried at the start
    is_file,   \* the local is_file of run
    outcome,   \* the Result of run
    before,    \* history: the filesystem when run was entered
    runs,      \* number of invocations started so far
    raced      \* history: another process created the entry after the check

vars == <<fs, pc, options, stdin, payload, is_file, outcome, before, runs, raced>>

---------------------------------------------------------------------------
(* Bounds and input domains *)

MaxRuns == 2
MaxSegLen == 4

Alphabet == {".", "a", "sh", "SH"}

SeqsUpTo(S, n) == UNION {[1..k -> S] : k \in 1..n}

\* The components "." and ".." are not names (Component::CurDir, ParentDir).
Segments == SeqsUpTo(Alphabet, MaxSegLen) \ {<<".">>, <<".", ".">>}

d == <<"d">>
x_sh == <<"x", ".", "sh">>
x_txt == <<"x", ".", "txt">>

Paths == {<<d>>, <<x_sh>>, <<x_txt>>, <<d, x_txt>>, <<d, x_sh>>, <<d, d>>}

ShapePaths == {<<s>> : s \in Segments} \cup {<<x_sh, s>> : s \in {<<"a">>, <<"a", ".", "a">>}}

Payloads == {<<>>, <<7>>, <<7, 9>>}

ExtContent == <<5, 5, 5>>

---------------------------------------------------------------------------
(* Options and results *)

Options == [file : BOOLEAN, directory : BOOLEAN, overwrite : BOOLEAN,
            executable : BOOLEAN, path : Paths \cup ShapePaths]

NoOptions == [file |-> FALSE, directory |-> FALSE, overwrite |-> FALSE,
              executable |-> FALSE, path |-> <<>>]

EXECUTABLE_EXTENSIONS ==
    { <<"exe">>, <<"bat">>, <<"cmd">>, <<"com">>, <<"ps1">>, <<"vbs">>, <<"msi">>, <<"scr">>,
      <<"sh">>, <<"bash">>, <<"zsh">>, <<"ksh">>, <<"run">>, <<"bin">>, <<"cgi">>, <<"py">>,
      <<"pl">>, <<"rb">>, <<"php">>,
      <<"jar">>, <<"appimage">>, <<"apk">>, <<"wasm">>, <<"pyz">> }

Ok == "Ok"
ConflictingTypeOverride == "Cannot force both file and directory"
EntryAlreadyExists == "Entry already exists"
ExecutableOnDirectory == "Cannot make directory executable"
UnexpectedInputForDirectory == "Cannot create directory with stdin data"
ExecutableMarkingFailed == "Unsuccessful in setting file executable"
FilesystemError == "io::Error"
Proceed == "proceed"

---------------------------------------------------------------------------
(* std::path *)

None == [some |-> FALSE, val |-> <<>>]
Some(v) == [some |-> TRUE, val |-> v]

SeqMax(S) == CHOOSE i \in S : \A j \in S : j <= i

\* Path::parent of a path below the root.
parent(p) == SubSeq(p, 1, Len(p) - 1)

\* Path::file_name: the final Normal component.
file_name(p) == IF p = <<>> THEN None ELSE Some(p[Len(p)])

\* std::path::rsplit_file_at_dot: split a file name at its last dot; a name
\* whose only dot is the leading one is not split.
rsplit_file_at_dot(file) ==
    LET dots == {i \in 1..Len(file) : file[i] = "."} IN
    IF file = <<".", ".">> \/ dots = {}
    THEN [before |-> Some(file), after |-> None]
    ELSE LET i == SeqMax(dots)
             bef == SubSeq(file, 1, i - 1)
             aft == SubSeq(file, i + 1, Len(file))
         IN  IF bef = <<>>
             THEN [before |-> Some(file), after |-> None]
             ELSE [before |-> Some(bef), after |-> Some(aft)]

\* Path::extension: file_name, split at the last dot, the part after it.
extension(p) ==
    LET name == file_name(p) IN
    IF ~name.some THEN None
    ELSE LET parts == rsplit_file_at_dot(name.val) IN
         IF parts.before.some THEN parts.after ELSE None

---------------------------------------------------------------------------
(* std::fs *)

Dir == [kind |-> "dir", content |-> <<>>, exec |-> FALSE]
NewFile == [kind |-> "file", content |-> <<>>, exec |-> FALSE]

\* The filesystem of a fresh root: no entry below it.
EmptyFs == [p \in {} |-> Dir]

Ancestors(p) == {SubSeq(p, 1, i) : i \in 1..(Len(p) - 1)}

\* Path resolution as stat(2) does it: a non-directory on the way is ENOTDIR,
\* a missing component is ENOENT.
stat(f, p) ==
    IF p = <<>> THEN "OK"
    ELSE IF \E a \in Ancestors(p) : a \in DOMAIN f /\ f[a].kind = "file" THEN "ENOTDIR"
    ELSE IF p \notin DOMAIN f THEN "ENOENT"
    ELSE "OK"

is_dir(f, p) ==
    IF stat(f, p) # "OK" THEN FALSE
    ELSE IF p = <<>> THEN TRUE
    ELSE f[p].kind = "dir"

\* (mutant of exists) a probe that sees files only, as Path::is_file would
exists_files_only(f, p) ==
    LET st == stat(f, p) IN
    IF st = "OK" /\ p # <<>> /\ f[p].kind = "file" THEN "true"
    ELSE IF st = "ENOTDIR" THEN "err" ELSE "false"

\* std::fs::exists: Ok(true), Ok(false) on NotFound, Err on any other error.
exists(f, p) ==
    LET st == stat(f, p) IN
    IF st = "OK" THEN "true" ELSE IF st = "ENOENT" THEN "false" ELSE "err"

\* mkdir(2)
mkdir(f, p) ==
    IF p = <<>> THEN "EEXIST"
    ELSE LET up == stat(f, parent(p)) IN
         IF up # "OK" THEN up
         ELSE IF ~is_dir(f, parent(p)) THEN "ENOTDIR"
         ELSE IF p \in DOMAIN f THEN "EEXIST"
         ELSE "OK"

\* std::fs::create_dir_all
RECURSIVE create_dir_all(_, _)
create_dir_all(f, p) ==
    LET e == mkdir(f, p) IN
    IF e = "OK" THEN [ok |-> TRUE, fs |-> (p :> Dir) @@ f]
    ELSE IF e = "ENOENT"
    THEN LET up == create_dir_all(f, parent(p)) IN
         IF ~up.ok THEN up
         ELSE IF mkdir(up.fs, p) = "OK"
              THEN [ok |-> TRUE, fs |-> (p :> Dir) @@ up.fs]
              ELSE [ok |-> is_dir(up.fs, p), fs |-> up.fs]
    ELSE [ok |-> is_dir(f, p), fs |-> f]

\* (mutant of FileCreate) open without O_TRUNC: the old bytes stay
FileCreate_no_truncate(f, p) ==
    LET up == stat(f, parent(p)) IN
    IF up # "OK" \/ ~is_dir(f, parent(p)) THEN [ok |-> FALSE, fs |-> f]
    ELSE IF p \in DOMAIN f
         THEN [ok |-> f[p].kind # "dir", fs |-> f]
         ELSE [ok |-> TRUE, fs |-> (p :> NewFile) @@ f]

\* (mutant of FileCreate) File::create_new, O_EXCL: an existing entry is an error
FileCreate_new(f, p) ==
    LET up == stat(f, parent(p)) IN
    IF up # "OK" \/ ~is_dir(f, parent(p)) \/ p \in DOMAIN f THEN [ok |-> FALSE, fs |-> f]
    ELSE [ok |-> TRUE, fs |-> (p :> NewFile) @@ f]

\* std::fs::File::create: open(O_WRONLY | O_CREAT | O_TRUNC, 0o666).  An
\* existing file is truncated and keeps its mode; a new file is not executable.
FileCreate(f, p) ==
    LET up == stat(f, parent(p)) IN
    IF up # "OK" \/ ~is_dir(f, parent(p)) THEN [ok |-> FALSE, fs |-> f]
    ELSE IF p \in DOMAIN f
         THEN IF f[p].kind = "dir"
              THEN [ok |-> FALSE, fs |-> f]
              ELSE [ok |-> TRUE, fs |-> [f EXCEPT ![p].content = <<>>]]
         ELSE [ok |-> TRUE, fs |-> (p :> NewFile) @@ f]

\* write(2) of one byte at offset off of the open file.
WriteAt(content, off, b) ==
    IF off < Len(content) THEN [content EXCEPT ![off + 1] = b] ELSE Append(content, b)

---------------------------------------------------------------------------
(* run *)

\* The match on (options.file, options.directory); the (true, true) arm bails
\* before is_file is bound.
resolve_type(o) ==
    IF o.file = o.directory THEN extension(o.path).some ELSE o.file

\* anyhow::ensure!(options.overwrite || !std::fs::exists(&path)?, ...)
ensure_not_existing(o, f) ==
    IF o.overwrite THEN Proceed
    ELSE LET ex == exists(f, o.path) IN
         IF ex = "err" THEN FilesystemError
         ELSE IF ex = "true" THEN EntryAlreadyExists
         ELSE Proceed

\* (mutant of is_stdin_empty) the probe of stdin dropped
is_stdin_empty_unchecked(s) == TRUE

\* stdin.read(&mut [0; 1][..])? == 0
is_stdin_empty(s) == Len(s) = 0

\* The checks of the `if !is_file` block that precede create_dir_all.
directory_checks(o, s) ==
    IF o.executable THEN ExecutableOnDirectory
    ELSE IF ~is_stdin_empty(s) THEN UnexpectedInputForDirectory
    ELSE Proceed

\* (mutant of decide) the directory checks moved before the existence check
decide_directory_first(o, f, s) ==
    IF o.file /\ o.directory THEN ConflictingTypeOverride
    ELSE IF ~resolve_type(o) /\ directory_checks(o, s) # Proceed THEN directory_checks(o, s)
    ELSE ensure_not_existing(o, f)

\* Everything run does before its first mutation, in source order.
decide(o, f, s) ==
    IF o.file /\ o.directory THEN ConflictingTypeOverride
    ELSE IF ensure_not_existing(o, f) # Proceed THEN ensure_not_existing(o, f)
    ELSE IF ~resolve_type(o) THEN directory_checks(o, s)
    ELSE Proceed

\* is_executable as computed after the copy.
is_executable(o) ==
    LET ext == extension(o.path) IN
    o.executable \/ (ext.some /\ ext.val \in EXECUTABLE_EXTENSIONS)

\* (mutant of make_executable) the exit status of chmod ignored
make_executable_unchecked(ok) == Ok

\* make_executable: the Result of running `chmod +x`.
make_executable(ok) == IF ok THEN Ok ELSE ExecutableMarkingFailed

Begin(o, B) ==
    /\ pc = "idle"
    /\ runs < MaxRuns
    /\ runs' = runs + 1
    /\ options' = o
    /\ payload' = B
    /\ before' = fs
    /\ raced' = FALSE
    /\ LET r == decide(o, fs, B) IN
       /\ is_file' = IF o.file /\ o.directory THEN FALSE ELSE resolve_type(o)
       /\ outcome' = IF r = Proceed THEN "running" ELSE r
       /\ pc' = IF r # Proceed THEN "done"
                ELSE IF resolve_type(o) THEN "parents" ELSE "mkdir"
       \* the directory branch consumes the byte it probes for
       /\ stdin' = IF ~(o.file /\ o.directory) /\ ensure_not_existing(o, fs) = Proceed
                      /\ ~resolve_type(o) /\ ~o.executable /\ B # <<>>
                    THEN Tail(B) ELSE B
    /\ UNCHANGED fs

\* mk <flags> <path> with standard input B
Start ==
    \E p \in Paths, f, dr, o, x \in BOOLEAN, B \in Payloads :
        Begin([file |-> f, directory |-> dr, overwrite |-> o, executable |-> x, path |-> p], B)

\* the same in a fresh root, over every shape of the final segment
StartShape ==
    /\ runs = 0
    /\ \E p \in ShapePaths, f, dr, o, x \in BOOLEAN, B \in Payloads :
        Begin([file |-> f, directory |-> dr, overwrite |-> o, executable |-> x, path |-> p], B)

\* std::fs::create_dir_all(path)?; return Ok(())
CreateDir ==
    /\ pc = "mkdir"
    /\ LET r == create_dir_all(fs, options.path) IN
       /\ fs' = r.fs
       /\ outcome' = IF r.ok THEN Ok ELSE FilesystemError
    /\ pc' = "done"
    /\ UNCHANGED <<options, stdin, payload, is_file, before, runs, raced>>

\* std::fs::create_dir_all(path.parent().expect("joined with root"))?
CreateParents ==
    /\ pc = "parents"
    /\ LET r == create_dir_all(fs, parent(options.path)) IN
       /\ fs' = r.fs
       /\ outcome' = IF r.ok THEN outcome ELSE FilesystemError
       /\ pc' = IF r.ok THEN "create" ELSE "done"
    /\ UNCHANGED <<options, stdin, payload, is_file, before, runs, raced>>

\* let mut file = std::fs::File::create(&path)?
CreateFile ==
    /\ pc = "create"
    /\ LET r == FileCreate(fs, options.path) IN
       /\ fs' = r.fs
       /\ outcome' = IF r.ok THEN outcome ELSE FilesystemError
       /\ pc' = IF r.ok THEN "copy" ELSE "done"
    /\ UNCHANGED <<options, stdin, payload, is_file, before, runs, raced>>

\* std::io::copy(&mut stdin, &mut file)?: one read and write per step, until
\* the read returns no byte
Copy ==
    /\ pc = "copy"
    /\ IF stdin # <<>>
       THEN /\ fs' = [fs EXCEPT ![options.path].content =
                          WriteAt(@, Len(payload) - Len(stdin), Head(stdin))]
            /\ stdin' = Tail(stdin)
            /\ pc' = "copy"
       ELSE /\ pc' = "mark"
            /\ UNCHANGED <<fs, stdin>>
    /\ UNCHANGED <<options, payload, is_file, outcome, before, runs, raced>>

\* if is_executable { make_executable(&path)?; } Ok(())
Mark ==
    /\ pc = "mark"
    /\ IF is_executable(options)
       THEN \E ok \in BOOLEAN :
                /\ outcome' = make_executable(ok)
                /\ fs' = IF ok THEN [fs EXCEPT ![options.path].exec = TRUE] ELSE fs
       ELSE /\ outcome' = Ok
            /\ UNCHANGED fs
    /\ pc' = "done"
    /\ UNCHANGED <<options, stdin, payload, is_file, before, runs, raced>>

\* the process exits; nothing of the invocation outlives it
Exit ==
    /\ pc = "done"
    /\ pc' = "idle"
    /\ options' = NoOptions
    /\ stdin' = <<>>
    /\ payload' = <<>>
    /\ is_file' = FALSE
    /\ outcome' = "none"
    /\ before' = EmptyFs
    /\ raced' = FALSE
    /\ UNCHANGED <<fs, runs>>

\* Another process creates a file at the path of the running invocation.
ExternalCreate ==
    /\ pc \in {"mkdir", "parents", "create"}
    /\ stat(fs, options.path) = "ENOENT"
    /\ is_dir(fs, parent(options.path))
    /\ fs' = (options.path :> [kind |-> "file", content |-> ExtContent, exec |-> FALSE]) @@ fs
    /\ raced' = TRUE
    /\ UNCHANGED <<pc, options, stdin, payload, is_file, outcome, before, runs>>

Init ==
    /\ fs = EmptyFs
    /\ pc = "idle"
    /\ options = NoOptions
    /\ stdin = <<>>
    /\ payload = <<>>
    /\ is_file = FALSE
    /\ outcome = "none"
    /\ before = EmptyFs
    /\ runs = 0
    /\ raced = FALSE

Steps == CreateDir \/ CreateParents \/ CreateFile \/ Copy \/ Mark \/ Exit

Next == Start \/ Steps

NextShape == StartShape \/ Steps

NextExt == Start \/ Steps \/ ExternalCreate

Spec == Init /\ [][Next]_vars

SpecShape == Init /\ [][NextShape]_vars

SpecExt == Init /\ [][NextExt]_vars

---------------------------------------------------------------------------
(* Vocabulary of the properties, stated on names and on the history        *)
(* variables rather than through the operators of run.                     *)

Invoked == pc # "idle"
Done == pc = "done"
Both == options.file /\ options.directory
NoOverride == ~options.file /\ ~options.directory
LastSeg == options.path[Len(options.path)]

\* the name has a dot that is not its first character
DotAfterFirst(seg) == \E i \in 2..Len(seg) : seg[i] = "."
\* the name has an extension and at least one character follows its last dot
NonEmptyExt(seg) == DotAfterFirst(seg) /\ seg[Len(seg)] # "."
\* the name ends in ".<e>" with e in the executable set
HasExecExt(seg) ==
    /\ Len(seg) >= 3
    /\ seg[Len(seg) - 1] = "."
    /\ <<seg[Len(seg)]>> \in EXECUTABLE_EXTENSIONS

Existed == options.path \in DOMAIN before
Present == options.path \in DOMAIN fs
IsFileNow == Present /\ fs[options.path].kind = "file"
IsDirNow == Present /\ fs[options.path].kind = "dir"
ChildrenOf(f, p) == {q \in DOMAIN f : Len(q) > Len(p) /\ SubSeq(q, 1, Len(p)) = p}
AncestorIsFile == \E a \in Ancestors(options.path) : a \in DOMAIN before /\ before[a].kind = "file"

PolicyRejections == {EntryAlreadyExists, ExecutableOnDirectory, UnexpectedInputForDirectory}
Rejections == PolicyRejections \cup {ConflictingTypeOverride}

\* the four decision checks, on the state the invocation was entered in
FirstFailing ==
    IF Both THEN ConflictingTypeOverride
    ELSE IF ~options.overwrite /\ Existed THEN EntryAlreadyExists
    ELSE IF ~is_file /\ options.executable THEN ExecutableOnDirectory
    ELSE IF ~is_file /\ payload # <<>> THEN UnexpectedInputForDirectory
    ELSE "none"

---------------------------------------------------------------------------
(* C1 *)

\* C1 (as claimed): with no override the resolved type is File exactly when
\* the final segment has a non-empty extension (a bare trailing dot counts as
\* no extension), and a successful run leaves an entry of that kind.
C1_Claim ==
    (Invoked /\ NoOverride) =>
        /\ is_file <=> NonEmptyExt(LastSeg)
        /\ (Done /\ outcome = Ok) => IF is_file THEN IsFileNow ELSE IsDirNow

---------------------------------------------------------------------------
(* C2 *)

\* C2 (as claimed): with no override every final segment that begins with a
\* dot resolves to Directory, however many further dots it contains.
C2_Claim ==
    (Invoked /\ NoOverride /\ LastSeg[1] = ".") => ~is_file

---------------------------------------------------------------------------
(* C3 *)

\* C3: an entry exists at the path, --overwrite is not given and at most one
\* of --file/--directory is set: the run fails with EntryAlreadyExists and
\* the filesystem is exactly as before, whatever the path, -x and stdin.
C3_ExistingEntryRejected ==
    (Done /\ ~options.overwrite /\ ~Both /\ Existed) =>
        /\ outcome = EntryAlreadyExists
        /\ fs = before

C3_Witness ==
    /\ Done /\ ~options.overwrite /\ ~Both /\ Existed
    /\ before[options.path].kind = "dir"
    /\ options.executable /\ payload # <<>>
    /\ outcome = EntryAlreadyExists

---------------------------------------------------------------------------
(* C4 *)

\* C4 (as claimed): an entry exists at the path, --overwrite is given and no
\* rejection condition is present: the run succeeds for every existing kind
\* and every resolved type, the entry then has the resolved kind and nothing
\* of the previous entry is left.
C4_Claim ==
    (Done /\ options.overwrite /\ Existed /\ FirstFailing = "none"
          /\ outcome # ExecutableMarkingFailed) =>
        /\ outcome = Ok
        /\ IF is_file THEN IsFileNow /\ fs[options.path].content = payload
                      ELSE IsDirNow /\ ChildrenOf(fs, options.path) = {}

---------------------------------------------------------------------------
(* C5 *)

\* C5 (as claimed): resolved type Directory and at least one byte on stdin:
\* the run fails with a policy rejection and creates nothing.
C5_Claim ==
    (Done /\ ~Both /\ ~is_file /\ payload # <<>>) =>
        /\ outcome \in PolicyRejections
        /\ fs = before

\* C5 (amended): resolved type Directory and at least one byte on stdin: the
\* run fails and creates nothing; the failure is a policy rejection, except
\* that without --overwrite and with a non-directory among the ancestors of
\* the path the existence check itself fails with the platform's error.
C5_DirectoryWithInputFails ==
    (Done /\ ~Both /\ ~is_file /\ payload # <<>>) =>
        /\ fs = before
        /\ IF ~options.overwrite /\ AncestorIsFile
           THEN outcome = FilesystemError
           ELSE outcome \in PolicyRejections

C5_Witness ==
    /\ Done /\ ~Both /\ ~is_file /\ payload # <<>>
    /\ Len(options.path) = 2 /\ parent(options.path) \notin DOMAIN before
    /\ outcome = UnexpectedInputForDirectory
    /\ DOMAIN fs = DOMAIN before

---------------------------------------------------------------------------
(* C6 *)

\* C6: after a successful File creation the file at the path holds exactly
\* the bytes of stdin, also when stdin is empty and when --overwrite replaces
\* a file whose content was longer.
C6_ContentIsPayload ==
    (Done /\ is_file /\ outcome = Ok) =>
        /\ IsFileNow
        /\ fs[options.path].content = payload

C6_Witness ==
    /\ Done /\ is_file /\ outcome = Ok
    /\ Existed /\ before[options.path].kind = "file"
    /\ Len(before[options.path].content) > Len(payload)
    /\ payload # <<>>
    /\ fs[options.path].content = payload

---------------------------------------------------------------------------
(* C7 *)

\* C7 (as claimed): after a successful File creation, new or replacing, the
\* file is executable if and only if --executable was given or the extension
\* is in the executable set.
C7_Claim ==
    (Done /\ is_file /\ outcome = Ok) =>
        (fs[options.path].exec <=> (options.executable \/ HasExecExt(LastSeg)))

---------------------------------------------------------------------------
(* C8 *)

\* C8: the checks apply in the order both overrides, existing entry without
\* --overwrite, Directory with --executable, Directory with stdin input: a
\* reported rejection is the first of them that fails, --file with
\* --directory always reports the conflict, a failing check is reported
\* unless the existence check itself could not be made, and the filesystem
\* is untouched unless all four pass.
C8_ChecksInOrder ==
    Invoked =>
        /\ outcome \in Rejections => outcome = FirstFailing
        /\ Both => outcome = ConflictingTypeOverride
        /\ (FirstFailing # "none" /\ ~(~options.overwrite /\ AncestorIsFile))
               => outcome = FirstFailing
        /\ fs # before => FirstFailing = "none"
        /\ outcome \in Rejections => fs = before

C8_Witness ==
    /\ Done /\ ~Both /\ ~options.overwrite /\ Existed
    /\ ~is_file /\ options.executable /\ payload # <<>>
    /\ outcome = EntryAlreadyExists

---------------------------------------------------------------------------
(* C9 *)

\* C9: in the File case the executable bit is not touched before the
\* ancestors exist, the file exists and stdin is copied to its end; a failed
\* marking ends the run in failure with the file in place holding the whole
\* payload, while a rejection leaves nothing created.
C9_MarkingLast ==
    /\ (pc \in {"parents", "create", "copy", "mark"} /\ IsFileNow) =>
          (fs[options.path].exec <=> (Existed /\ before[options.path].exec))
    /\ pc = "mark" =>
          /\ IsFileNow /\ is_dir(fs, parent(options.path))
          /\ stdin = <<>> /\ fs[options.path].content = payload
    /\ (Done /\ outcome = ExecutableMarkingFailed) =>
          /\ IsFileNow /\ fs[options.path].content = payload
    /\ (Done /\ is_file /\ outcome = Ok /\ (options.executable \/ HasExecExt(LastSeg))) =>
          fs[options.path].exec
    /\ (Done /\ outcome \in Rejections) => fs = before

C9_Witness ==
    /\ Done /\ outcome = ExecutableMarkingFailed
    /\ ~Existed /\ parent(options.path) \notin DOMAIN before /\ Len(options.path) = 2
    /\ payload = <<7, 9>> /\ fs[options.path].content = payload
    /\ ~fs[options.path].exec

---------------------------------------------------------------------------
(* C10 *)

\* C10: the existence of the entry is sampled once: when another process
\* creates a file at the path after the check, an invocation in its File
\* case never reports EntryAlreadyExists, truncates that file, writes its own
\* payload over it and ends as it would have without the other process.
C10_CheckThenCreateNotAtomic ==
    (raced /\ is_file) =>
        /\ outcome # EntryAlreadyExists
        /\ Done => /\ outcome \in {Ok, ExecutableMarkingFailed}
                   /\ IsFileNow /\ fs[options.path].content = payload

C10_Witness ==
    /\ Done /\ raced /\ is_file /\ ~options.overwrite /\ ~Existed
    /\ outcome = Ok
    /\ fs[options.path].content = payload /\ payload # ExtContent

====
